---- MODULE Spec2Model ----
(***************************************************************************)
(* Model of server.js: the Socket.IO resume-screening backend.            *)
(*                                                                         *)
(* A job is one invocation of the async "startProcessing" handler.  The   *)
(* handler runs synchronously between its awaits; every action below is   *)
(* one such synchronous segment, started by the event that resumes it     *)
(* (the startProcessing event, or the settling of fetch, arrayBuffer,     *)
(* pdfParse or generateContent).  An await of an async function that      *)
(* settles without I/O (a synchronous throw in extractPdfData, the early  *)
(* returns of compareWithLLM) continues in the same segment.              *)
(*                                                                         *)
(* JavaScript values are records [type, val, num]: val is the sequence of *)
(* characters of a string, num the value of a number.  Texts are          *)
(* sequences of tokens: single characters, and the labels the regular     *)
(* expressions of compareWithLLM look for.                                *)
(***************************************************************************)
EXTENDS Integers, Sequences, FiniteSets, TLC

\* ------------------------------------------------------------------ bounds
MaxRows == 2
NumJobs == 2
NumSockets == 2

Jobs == 1..NumJobs
Sockets == 1..NumSockets

\* ------------------------------------------------------- JavaScript values
Str(s) == [type |-> "string", val |-> s, num |-> 0]
Num(n) == [type |-> "number", val |-> <<>>, num |-> n]
Undefined == [type |-> "undefined", val |-> <<>>, num |-> 0]
Null == [type |-> "null", val |-> <<>>, num |-> 0]

\* Truthy as a test against undefined and null only
TruthyDefined(v) == v.type \notin {"undefined", "null"}

\* JavaScript truthiness: if (!resume_link), if (extractedContent.text), ||
Truthy(v) ==
    CASE v.type = "string" -> v.val # <<>>
      [] v.type = "number" -> v.num # 0
      [] OTHER -> FALSE

\* property read on an object: an absent key reads as undefined
Get(fields, k) == IF k \in DOMAIN fields THEN fields[k] ELSE Undefined

IsSpace(c) == c \in {" ", "\n"}

RECURSIVE TrimStart(_)
TrimStart(s) ==
    IF s # <<>> /\ IsSpace(Head(s)) THEN TrimStart(Tail(s)) ELSE s

RECURSIVE TrimEnd(_)
TrimEnd(s) ==
    IF s # <<>> /\ IsSpace(s[Len(s)])
    THEN TrimEnd(SubSeq(s, 1, Len(s) - 1))
    ELSE s

\* String.prototype.trim
Trim(s) == TrimEnd(TrimStart(s))

\* ------------------------------------------------- fixed strings of server.js
NotConfigured == <<"LLM not configured.">>
MissingContent == <<"Missing resume content for LLM analysis.">>
NoSummary == <<"Could not parse summary from LLM response.">>
ApiError == <<"Failed to get LLM report due to API error.">>
NotAnalyzed == <<"Resume content not analyzed.">>
Skipped == <<"LLM analysis skipped due to no extracted PDF text.">>
NoStatus == "<absent>"

\* ------------------------------------------ compareWithLLM: response parsing
Digits == {"0", "1", "2", "3", "4", "5", "6", "7", "8", "9"}

DigitVal(c) ==
    CASE c = "0" -> 0 [] c = "1" -> 1 [] c = "2" -> 2 [] c = "3" -> 3
      [] c = "4" -> 4 [] c = "5" -> 5 [] c = "6" -> 6 [] c = "7" -> 7
      [] c = "8" -> 8 [] c = "9" -> 9

\* the /i flag of both regular expressions
Fold(c) ==
    CASE c = "RATING:" -> "Rating:"
      [] c = "rating:" -> "Rating:"
      [] c = "summary:" -> "Summary:"
      [] OTHER -> c

\* index of the first token at or after p that is not white space (\s*)
RECURSIVE SkipSpace(_, _)
SkipSpace(t, p) ==
    IF p <= Len(t) /\ IsSpace(t[p]) THEN SkipSpace(t, p + 1) ELSE p

\* the longest run of digits starting at p (\d+), possibly empty
RECURSIVE DigitRun(_, _)
DigitRun(t, p) ==
    IF p <= Len(t) /\ t[p] \in Digits
    THEN <<t[p]>> \o DigitRun(t, p + 1)
    ELSE <<>>

\* /(?:Numeric )?Rating:\s*\*?(\d+)(?:\/\d+)?/i tried with "Rating:" at p:
\* the captured group 1, or <<>> when the expression does not match there
RatingAt(t, p) ==
    IF p > Len(t) \/ Fold(t[p]) # "Rating:"
    THEN <<>>
    ELSE LET q == SkipSpace(t, p + 1)
             r == IF q <= Len(t) /\ t[q] = "*" THEN q + 1 ELSE q
         IN  DigitRun(t, r)

\* text.match(ratingRegex): group 1 of the leftmost match, <<>> for null
RECURSIVE RatingMatch(_, _)
RatingMatch(t, p) ==
    IF p > Len(t) THEN <<>>
    ELSE IF RatingAt(t, p) # <<>> THEN RatingAt(t, p)
    ELSE RatingMatch(t, p + 1)

\* parseInt(digits, 10)
RECURSIVE ParseInt(_)
ParseInt(d) ==
    IF d = <<>> THEN 0
    ELSE 10 * ParseInt(SubSeq(d, 1, Len(d) - 1)) + DigitVal(d[Len(d)])

\* ParseRating without the range check of line 159
ParseRatingRaw(t) ==
    LET m == RatingMatch(t, 1)
    IN  IF m # <<>> THEN ParseInt(m) ELSE 0

\* lines 156-169: the rating of a response
ParseRating(t) ==
    LET m == RatingMatch(t, 1)
    IN  IF m # <<>>
        THEN LET rating == ParseInt(m)
             IN  IF rating < 0 \/ rating > 10 THEN 0 ELSE rating
        ELSE 0

\* the tokens from p up to the end of the line: (.*)
RECURSIVE RestOfLine(_, _)
RestOfLine(t, p) ==
    IF p > Len(t) \/ t[p] = "\n" THEN <<>>
    ELSE <<t[p]>> \o RestOfLine(t, p + 1)

IsSummaryLabel(c) == Fold(c) \in {"Summary:", "Summarized Report:"}

\* position of the leftmost summary label at or after p, 0 when there is none
RECURSIVE SummaryLabel(_, _)
SummaryLabel(t, p) ==
    IF p > Len(t) THEN 0
    ELSE IF IsSummaryLabel(t[p]) THEN p
    ELSE SummaryLabel(t, p + 1)

\* lines 152-154 and 171-173: the summary of a response
ParseSummary(t) ==
    LET p == SummaryLabel(t, 1)
    IN  IF p # 0
        THEN Trim(RestOfLine(t, SkipSpace(t, p + 1)))
        ELSE NoSummary

\* ParseResponse that gives up on the summary when no rating is found
ParseResponseCoupled(t) ==
    IF RatingMatch(t, 1) = <<>>
    THEN [rating |-> 0, summary |-> NoSummary]
    ELSE [rating |-> ParseRating(t), summary |-> ParseSummary(t)]

\* lines 149-175: the report built from the backend's response text
ParseResponse(t) == [rating |-> ParseRating(t), summary |-> ParseSummary(t)]

\* ------------------------------------------------------------ input universe
\* a Google Drive share link and a plain link, as sequences of tokens
DriveView == "https://drive.google.com/file/d/"
DriveDownload == "https://drive.google.com/uc?export=download&id="
DriveLink == Str(<<DriveView, "f", "1">>)
PlainLink == Str(<<"https://x/", "c", "v">>)

Obj(f) == [type |-> "object", fields |-> f]
RowA == Obj([email |-> Str(<<"a">>), resume_link |-> DriveLink])
RowB == Obj([name |-> Str(<<"b">>)])
RowC == Obj([email |-> Str(<<"c">>), resume_link |-> Str(<<>>)])
RowD == Obj([email |-> Str(<<"d">>), resume_link |-> Num(42)])
RowE == Obj([email |-> Str(<<>>), resume_link |-> PlainLink])
RowNull == [type |-> "null", fields |-> <<>>]

Rows == {RowA, RowB, RowC, RowD, RowE, RowNull}

RECURSIVE SeqsUpTo(_, _)
SeqsUpTo(S, n) ==
    IF n = 0 THEN {<<>>}
    ELSE LET shorter == SeqsUpTo(S, n - 1)
         IN  shorter \cup {Append(q, x) : q \in shorter, x \in S}

Array(items) == [type |-> "array", items |-> items]
NotArray(t) == [type |-> t, items |-> <<>>]

\* the csvData of a payload: an array of rows, a missing key, or a number
CsvDatas(R, n) ==
    {Array(q) : q \in SeqsUpTo(R, n)} \cup {NotArray("undefined"), NotArray("number")}

JobText == Str(<<"j", "d">>)
TxtDatas == {JobText, Undefined}

NoPayload == [present |-> FALSE, csvData |-> NotArray("undefined"), txtData |-> Undefined]

Payloads(R, n) ==
    {[present |-> TRUE, csvData |-> c, txtData |-> t] : c \in CsvDatas(R, n), t \in TxtDatas}
        \cup {NoPayload}

\* what the external calls can answer
Result(k, v) == [kind |-> k, value |-> v]
Pending == Result("pending", Undefined)
FetchResults == {Result("ok", Undefined), Result("notOk", Undefined), Result("throws", Undefined)}
ArrayBufferResults == {Result("ok", Undefined), Result("throws", Undefined)}
PdfTexts == {Str(<<"a", " ", "b">>), Str(<<" ", "\n">>), Str(<<>>), Undefined}
PdfParseResults == {Result("data", t) : t \in PdfTexts} \cup {Result("throws", Undefined)}
LLMTexts ==
    { <<"Rating:", "8", "/", "1", "0", " ", "Summary:", "w", " ", "w">>,
      <<"Rating:", " ", "1", "1", "/", "1", "0", "\n", "Summary:", " ", "w", " ">>,
      <<"w", " ", "w">>,
      <<"Rating:", " ", "-", "3", " ", "Summarized Report:", "w">>,
      <<"rating:", "*", "1", "0", "*">>,
      <<"Rating:", "*", "*", "7", "Rating:", "9", "9">>,
      <<"Summary:", " ", "LLM not configured.">>,
      <<"Rating:", "0", "/", "1", "0", " ", "Summary:", "w">> }
LLMResults == {Result("text", Str(t)) : t \in LLMTexts} \cup {Result("throws", Undefined)}

\* --------------------------------------------------------------------- state
VARIABLES
    apiKey,                 \* process.env.GEMINI_API_KEY
    connected,              \* sockets for which io.on("connection") has run
    payload,                \* the argument of each job's startProcessing event
    sockOf,                 \* the socket whose handler runs the job
    pc,                     \* where each job's handler is suspended
    i,                      \* the loop index of each job
    url,                    \* effectiveResumeLink of the extractPdfData in flight
    extractedContent,       \* extractedContent.text of the row in progress
    processedResumes,       \* line 218
    successfulExtractions,  \* line 219
    successfulLLMCalls,     \* line 220
    emitted,                \* per socket, the events sent by socket.emit
    io,                     \* per job, the external calls made and their results
    closed,                 \* sockets whose "disconnect" handler has run
    delivered               \* per socket, the events that reached the client

vars == <<apiKey, connected, payload, sockOf, pc, i, url, extractedContent,
          processedResumes, successfulExtractions, successfulLLMCalls, emitted, io,
          closed, delivered>>

\* lines 20-31: without a key the process exits before it serves anything
running == apiKey # ""
model == IF apiKey # "" THEN "gemini-2.5-flash" ELSE "null"

Init ==
    /\ apiKey \in {"key", ""}
    /\ connected = [s \in Sockets |-> FALSE]
    /\ payload = [j \in Jobs |-> NoPayload]
    /\ sockOf = [j \in Jobs |-> 0]
    /\ pc = [j \in Jobs |-> "idle"]
    /\ i = [j \in Jobs |-> 0]
    /\ url = [j \in Jobs |-> <<>>]
    /\ extractedContent = [j \in Jobs |-> Null]
    /\ processedResumes = [j \in Jobs |-> <<>>]
    /\ successfulExtractions = [j \in Jobs |-> 0]
    /\ successfulLLMCalls = [j \in Jobs |-> 0]
    /\ emitted = [s \in Sockets |-> <<>>]
    /\ io = [j \in Jobs |-> <<>>]
    /\ closed = {}
    /\ delivered = [s \in Sockets |-> <<>>]

\* ------------------------------------------------------------ socket.emit
Event(n, j, st, kind, row, who, data, ext, llm, err) ==
    [name |-> n, job |-> j, status |-> st, report |-> kind, row |-> row, who |-> who,
     finalData |-> data, extractions |-> ext, llmCalls |-> llm, error |-> err]

\* a processingUpdate; row is the index the report is about, -1 for none
Update(j, st, kind, row, who) ==
    Event("processingUpdate", j, st, kind, row, who, <<>>, 0, 0, "")

\* lines 299-302
Complete(j, data, ext, llm) ==
    Event("processingComplete", j, NoStatus, "Successfully extracted", -1, <<>>, data, ext, llm, "")

\* lines 311-315
Error(j, msg) ==
    Event("processingError", j, NoStatus, "", -1, <<>>, <<>>, 0, 0, msg)

\* ---------------------------------------------------------- extractPdfData
\* lines 45-59: a Google Drive share link becomes a direct download link
Resolve(link) ==
    IF link # <<>> /\ Head(link) = DriveView
    THEN <<DriveDownload>> \o Tail(link)
    ELSE link

\* ExtractedText without the trim of line 79
ExtractedTextNoTrim(text) == IF Truthy(text) THEN text ELSE Null

\* lines 78-92: the text extractPdfData returns for what pdfParse gave
ExtractedText(text) ==
    IF Truthy(text) /\ Len(Trim(text.val)) > 0 THEN text ELSE Null

\* ------------------------------------------------- the startProcessing handler
\* Scope with the accumulator and the counters declared at module level
ScopeShared(j) == 1

\* lines 218-220: the accumulator and the counters are locals of one invocation
Scope(j) == j

\* the decimal digits of n, as template literals print a number
RECURSIVE ToStr(_)
ToStr(n) ==
    LET d == <<"0", "1", "2", "3", "4", "5", "6", "7", "8", "9">>
    IN  IF n < 10 THEN <<d[n + 1]>> ELSE ToStr(n \div 10) \o <<d[(n % 10) + 1]>>

\* line 225
EmailOf(row, n) ==
    IF Truthy(Get(row.fields, "email"))
    THEN Get(row.fields, "email").val
    ELSE <<"NoEmail_">> \o ToStr(n)

\* ProcessedRow with the spread last: {pdfExtractionStatus, Rating, Summary, ...row}
ProcessedRowSpreadLast(row, text, rating, summary) ==
    [k \in DOMAIN row.fields \cup {"pdfExtractionStatus", "Rating", "Summary"} |->
        IF k \in DOMAIN row.fields THEN row.fields[k]
        ELSE CASE k = "pdfExtractionStatus" ->
                    IF Truthy(text) THEN Str(<<"Success">>) ELSE Str(<<"Failed">>)
               [] k = "Rating" -> Num(rating)
               [] OTHER -> Str(summary)]

\* lines 279-286: {...row, pdfExtractionStatus, Rating, Summary}
ProcessedRow(row, text, rating, summary) ==
    [k \in DOMAIN row.fields \cup {"pdfExtractionStatus", "Rating", "Summary"} |->
        CASE k = "pdfExtractionStatus" ->
                IF Truthy(text) THEN Str(<<"Success">>) ELSE Str(<<"Failed">>)
          [] k = "Rating" -> Num(rating)
          [] k = "Summary" -> Str(summary)
          [] OTHER -> row.fields[k]]

\* PushRow that loses the row
PushRowDrop(acc, processedRow) == acc

\* PushRow with unshift in place of push
PushRowFront(acc, processedRow) == <<processedRow>> \o acc

\* line 287
PushRow(acc, processedRow) == Append(acc, processedRow)

\* lines 268-273
CountsAsLLMCall(report) == report.rating > 0 \/ report.summary # NotConfigured

\* Throw that also sends what was accumulated
ThrowPartial(S, j, msg) ==
    [S EXCEPT !.pc = "failed",
              !.out = @ \o <<Complete(j, S.acc, S.ext, S.llm), Error(j, msg)>>]

\* lines 306-316: the catch block
Throw(S, j, msg) ==
    [S EXCEPT !.pc = "failed", !.out = Append(@, Error(j, msg))]

\* Finish whose last update carries no status
FinishNoStatus(S, j) ==
    [S EXCEPT !.pc = "completed",
              !.out = @ \o <<Update(j, NoStatus, "All resumes processed", -1, <<>>),
                             Complete(j, S.acc, S.ext, S.llm)>>]

\* lines 294-302
Finish(S, j) ==
    [S EXCEPT !.pc = "completed",
              !.out = @ \o <<Update(j, "converting to csv", "All resumes processed", -1, <<>>),
                             Complete(j, S.acc, S.ext, S.llm)>>]

\* an external call is made and the handler is suspended on it
Call(S, where, link) ==
    [S EXCEPT !.pc = where, !.url = link,
              !.calls = Append(@, [call |-> where, row |-> S.i, url |-> link,
                                   appended |-> Len(S.acc), result |-> Pending])]

RECURSIVE LoopFrom(_, _, _)

\* lines 266-292: the row's result is appended and the loop goes on
AfterLLM(p, S, j, report) ==
    LET row == p.csvData.items[S.i + 1]
        T == [S EXCEPT !.llm = IF CountsAsLLMCall(report) THEN @ + 1 ELSE @,
                       !.acc = PushRow(@, ProcessedRow(row, S.text, report.rating, report.summary)),
                       !.i = @ + 1]
    IN  LoopFrom(p, T, j)

\* lines 176-182: the catch block of compareWithLLM
LLMFailed == [rating |-> 0, summary |-> ApiError]

\* lines 102-144: compareWithLLM up to its first await
CompareWithLLM(p, S, j) ==
    IF model = "null"
    THEN AfterLLM(p, S, j, [rating |-> 0, summary |-> NotConfigured])
    ELSE IF ~Truthy(S.text)
    THEN AfterLLM(p, S, j, [rating |-> 0, summary |-> MissingContent])
    ELSE IF p.txtData.type \in {"undefined", "null"}
    THEN Throw(S, j, "Cannot read properties of undefined (reading 'length')")
    ELSE Call(S, "generateContent", <<>>)

\* AfterExtract without the test of line 258: every row is handed to the scorer
AfterExtractAlwaysScores(p, S, j, text) ==
    LET row == p.csvData.items[S.i + 1]
        who == EmailOf(row, S.i)
        T == [S EXCEPT !.text = text, !.url = <<>>,
                       !.ext = IF Truthy(text) THEN @ + 1 ELSE @,
                       !.out = Append(@, Update(j, NoStatus, "Analyzing resume", S.i, who))]
    IN  CompareWithLLM(p, T, j)

\* AfterExtract that counts every row as an extraction
AfterExtractCountsAll(p, S, j, text) ==
    LET row == p.csvData.items[S.i + 1]
        who == EmailOf(row, S.i)
        T == [S EXCEPT !.text = text, !.url = <<>>, !.ext = @ + 1]
    IN  IF Truthy(text)
        THEN LET U == [T EXCEPT !.out = Append(@, Update(j, NoStatus, "Analyzing resume", S.i, who))]
             IN  CompareWithLLM(p, U, j)
        ELSE LET U == [T EXCEPT !.acc = PushRow(@, ProcessedRow(row, text, 0, Skipped)),
                                !.i = @ + 1]
             IN  LoopFrom(p, U, j)

\* lines 240-277: after extractPdfData returned text
AfterExtract(p, S, j, text) ==
    LET row == p.csvData.items[S.i + 1]
        who == EmailOf(row, S.i)
        T == [S EXCEPT !.text = text, !.url = <<>>,
                       !.ext = IF Truthy(text) THEN @ + 1 ELSE @]
    IN  IF Truthy(text)
        THEN LET U == [T EXCEPT !.out = Append(@, Update(j, NoStatus, "Analyzing resume", S.i, who))]
             IN  CompareWithLLM(p, U, j)
        ELSE LET U == [T EXCEPT !.acc = PushRow(@, ProcessedRow(row, text, 0, Skipped)),
                                !.i = @ + 1]
             IN  LoopFrom(p, U, j)

\* ExtractFailed without the try blocks of extractPdfData
ExtractFailedThrows(p, S, j) == Throw(S, j, "request failed")

\* lines 61-73 and 93-99: a failed fetch, read or parse returns {text: null}
ExtractFailed(p, S, j) == AfterExtract(p, S, j, Null)

\* lines 35-62: extractPdfData up to its first await
ExtractPdfData(p, S, j, resume_link) ==
    IF ~Truthy(resume_link)
    THEN AfterExtract(p, S, j, Null)
    ELSE IF resume_link.type # "string"
    THEN Throw(S, j, "resume_link.match is not a function")
    ELSE Call(S, "fetch", Resolve(resume_link.val))

\* line 235: if (resume_link)
HasLink(resume_link) == Truthy(resume_link)

\* RowStart that says nothing about a row without a link
RowStartNoNote(p, S, j) ==
    LET row == p.csvData.items[S.i + 1]
    IN  IF row.type # "object"
        THEN Throw(S, j, "Cannot read properties of null (reading 'email')")
        ELSE LET who == EmailOf(row, S.i)
                 resume_link == Get(row.fields, "resume_link")
                 T == [S EXCEPT !.text = Null,
                                !.out = Append(@, Update(j, NoStatus, "Processing resume", S.i, who))]
             IN  IF HasLink(resume_link)
                 THEN LET U == [T EXCEPT !.out = Append(@, Update(j, NoStatus, "Extracting PDF", S.i, who))]
                      IN  ExtractPdfData(p, U, j, resume_link)
                 ELSE AfterExtract(p, T, j, Null)

\* lines 224-254: the row starts
RowStart(p, S, j) ==
    LET row == p.csvData.items[S.i + 1]
    IN  IF row.type # "object"
        THEN Throw(S, j, "Cannot read properties of null (reading 'email')")
        ELSE LET who == EmailOf(row, S.i)
                 resume_link == Get(row.fields, "resume_link")
                 T == [S EXCEPT !.text = Null,
                                !.out = Append(@, Update(j, NoStatus, "Processing resume", S.i, who))]
             IN  IF HasLink(resume_link)
                 THEN LET U == [T EXCEPT !.out = Append(@, Update(j, NoStatus, "Extracting PDF", S.i, who))]
                      IN  ExtractPdfData(p, U, j, resume_link)
                 ELSE LET U == [T EXCEPT !.out = Append(@, Update(j, NoStatus, "No PDF URL", S.i, who))]
                      IN  AfterExtract(p, U, j, Null)

\* line 223: the loop test
LoopFrom(p, S, j) ==
    IF p.csvData.type = "undefined"
    THEN Throw(S, j, "Cannot read properties of undefined (reading 'length')")
    ELSE IF p.csvData.type = "array" /\ S.i < Len(p.csvData.items)
    THEN RowStart(p, S, j)
    ELSE Finish(S, j)

\* the locals of job j at the start of a segment
Locals(j) ==
    [pc |-> pc[j], i |-> i[j], url |-> url[j], text |-> extractedContent[j],
     acc |-> processedResumes[Scope(j)], ext |-> successfulExtractions[Scope(j)],
     llm |-> successfulLLMCalls[Scope(j)], out |-> <<>>, calls |-> io[j]]

\* socket.emit on a socket whose connection is closed sends nothing
Deliver(s, sent, out) == IF connected[s] THEN sent \o out ELSE sent

\* the segment ends: its effects become the state
Commit(j, s, S) ==
    /\ pc' = [pc EXCEPT ![j] = S.pc]
    /\ i' = [i EXCEPT ![j] = S.i]
    /\ url' = [url EXCEPT ![j] = S.url]
    /\ extractedContent' = [extractedContent EXCEPT ![j] = S.text]
    /\ processedResumes' = [processedResumes EXCEPT ![Scope(j)] = S.acc]
    /\ successfulExtractions' = [successfulExtractions EXCEPT ![Scope(j)] = S.ext]
    /\ successfulLLMCalls' = [successfulLLMCalls EXCEPT ![Scope(j)] = S.llm]
    /\ emitted' = [emitted EXCEPT ![s] = @ \o S.out]
    /\ delivered' = [delivered EXCEPT ![s] = Deliver(s, @, S.out)]
    /\ io' = [io EXCEPT ![j] = S.calls]

\* the result of the call the job is suspended on is recorded
Settle(S, r) == [S EXCEPT !.calls[Len(S.calls)].result = r]

\* ------------------------------------------------------------------- actions
\* line 207: a client connects
Connect(s) ==
    /\ running
    /\ ~connected[s]
    /\ s \notin closed
    /\ connected' = [connected EXCEPT ![s] = TRUE]
    /\ UNCHANGED <<apiKey, payload, sockOf, pc, i, url, extractedContent, processedResumes,
                   successfulExtractions, successfulLLMCalls, emitted, io, closed, delivered>>

\* Disconnect with a handler that abandons the jobs of the socket
DisconnectAborts(s) ==
    /\ connected[s]
    /\ connected' = [connected EXCEPT ![s] = FALSE]
    /\ closed' = closed \cup {s}
    /\ pc' = [j \in Jobs |->
                IF sockOf[j] = s /\ pc[j] \in {"fetch", "arrayBuffer", "pdfParse", "generateContent"}
                THEN "failed" ELSE pc[j]]
    /\ UNCHANGED <<apiKey, payload, sockOf, i, url, extractedContent, processedResumes,
                   successfulExtractions, successfulLLMCalls, emitted, io, delivered>>

\* lines 319-321: the client of socket s disconnects; the handler only logs
Disconnect(s) ==
    /\ connected[s]
    /\ connected' = [connected EXCEPT ![s] = FALSE]
    /\ closed' = closed \cup {s}
    /\ UNCHANGED <<apiKey, payload, sockOf, pc, i, url, extractedContent, processedResumes,
                   successfulExtractions, successfulLLMCalls, emitted, io, delivered>>

\* lines 210-223: socket s receives startProcessing with argument p
Start(j, s, p) ==
    /\ running
    /\ connected[s]
    /\ pc[j] = "idle"
    /\ payload' = [payload EXCEPT ![j] = p]
    /\ sockOf' = [sockOf EXCEPT ![j] = s]
    /\ IF ~p.present
       THEN \* destructuring undefined throws before the body: the promise rejects
            /\ pc' = [pc EXCEPT ![j] = "rejected"]
            /\ UNCHANGED <<i, url, extractedContent, processedResumes,
                           successfulExtractions, successfulLLMCalls, emitted, io, delivered>>
       ELSE LET S == [Locals(j) EXCEPT
                        !.out = <<Update(j, "analysing all resume", "Received data", -1, <<>>)>>,
                        !.acc = <<>>, !.ext = 0, !.llm = 0, !.i = 0]
            IN  Commit(j, s, LoopFrom(p, S, j))
    /\ UNCHANGED <<apiKey, connected, closed>>

StartProcessing(j) ==
    \E s \in Sockets : \E p \in Payloads(Rows, MaxRows) : Start(j, s, p)

\* lines 62-73: fetch settles
FetchReturns(j, R) ==
    /\ pc[j] = "fetch"
    /\ \E r \in R :
        LET S == Settle(Locals(j), r)
        IN  IF r.kind = "ok"
            THEN Commit(j, sockOf[j], Call(S, "arrayBuffer", S.url))
            ELSE Commit(j, sockOf[j], ExtractFailed(payload[j], S, j))
    /\ UNCHANGED <<apiKey, connected, payload, sockOf, closed>>

\* lines 69-77: response.arrayBuffer() settles; pdfParse is called
ArrayBufferReturns(j, R) ==
    /\ pc[j] = "arrayBuffer"
    /\ \E r \in R :
        LET S == Settle(Locals(j), r)
        IN  IF r.kind = "ok"
            THEN Commit(j, sockOf[j], Call(S, "pdfParse", S.url))
            ELSE Commit(j, sockOf[j], ExtractFailed(payload[j], S, j))
    /\ UNCHANGED <<apiKey, connected, payload, sockOf, closed>>

\* lines 77-99: pdfParse settles
PdfParseReturns(j, R) ==
    /\ pc[j] = "pdfParse"
    /\ \E r \in R :
        LET S == Settle(Locals(j), r)
        IN  IF r.kind = "data"
            THEN Commit(j, sockOf[j], AfterExtract(payload[j], S, j, ExtractedText(r.value)))
            ELSE Commit(j, sockOf[j], ExtractFailed(payload[j], S, j))
    /\ UNCHANGED <<apiKey, connected, payload, sockOf, closed>>

\* lines 142-182: model.generateContent settles
GenerateContentReturns(j, R) ==
    /\ pc[j] = "generateContent"
    /\ \E r \in R :
        LET S == Settle(Locals(j), r)
            report == IF r.kind = "text"
                      THEN ParseResponse(r.value.val)
                      ELSE LLMFailed
        IN  Commit(j, sockOf[j], AfterLLM(payload[j], S, j, report))
    /\ UNCHANGED <<apiKey, connected, payload, sockOf, closed>>

Step(j) ==
    \/ FetchReturns(j, FetchResults)
    \/ ArrayBufferReturns(j, ArrayBufferResults)
    \/ PdfParseReturns(j, PdfParseResults)
    \/ GenerateContentReturns(j, LLMResults)

\* one session, one job
Next ==
    \/ Connect(1)
    \/ StartProcessing(1)
    \/ Step(1)

Spec == Init /\ [][Next]_vars

\* ---------------------------------------------------- several jobs at once
MaxRowsC == 1
RowsC == {RowA, RowB}
PayloadsC ==
    {[present |-> TRUE, csvData |-> Array(q), txtData |-> JobText] : q \in SeqsUpTo(RowsC, MaxRowsC)}
FetchResultsC == {Result("ok", Undefined), Result("notOk", Undefined)}
ArrayBufferResultsC == {Result("ok", Undefined)}
PdfParseResultsC == {Result("data", Str(<<"a", " ", "b">>))}
LLMResultsC ==
    {Result("text", Str(<<"Rating:", "8", "/", "1", "0", " ", "Summary:", "w", " ", "w">>)),
     Result("throws", Undefined)}

\* job j is the one job of session j
StartProcessingC(j) ==
    /\ j \in Sockets
    /\ \E p \in PayloadsC : Start(j, j, p)

StepC(j) ==
    \/ FetchReturns(j, FetchResultsC)
    \/ ArrayBufferReturns(j, ArrayBufferResultsC)
    \/ PdfParseReturns(j, PdfParseResultsC)
    \/ GenerateContentReturns(j, LLMResultsC)

\* the jobs of several sessions, interleaved at their awaits
NextC ==
    \/ \E s \in Sockets : Connect(s)
    \/ \E j \in Jobs : StartProcessingC(j)
    \/ \E j \in Jobs : StepC(j)

SpecConc == Init /\ [][NextC]_vars

\* ------------------------------------------------ a session that disconnects
MaxRowsD == 2

\* rows that are objects, with and without a job description
PayloadsD ==
    {[present |-> TRUE, csvData |-> Array(q), txtData |-> t] :
        q \in SeqsUpTo(RowsC, MaxRowsD), t \in TxtDatas}

StartProcessingD(j) ==
    \E p \in PayloadsD : Start(j, 1, p)

\* one session whose client may leave at any moment
NextD ==
    \/ Connect(1)
    \/ StartProcessingD(1)
    \/ StepC(1)
    \/ Disconnect(1)

SpecDisc == Init /\ [][NextD]_vars

\* ------------------------------------------- several jobs of one session
\* the session of socket 1 sends startProcessing for job j
StartProcessingS(j) ==
    \E p \in PayloadsC : Start(j, 1, p)

\* socket.on("startProcessing") runs the handler once per event: the jobs of
\* one session are separate invocations, interleaved at their awaits
NextS ==
    \/ Connect(1)
    \/ \E j \in Jobs : StartProcessingS(j)
    \/ \E j \in Jobs : StepC(j)

SpecSame == Init /\ [][NextS]_vars

\* ------------------------------- input columns named like the computed keys
\* a row of a CSV that was exported from an earlier report
RowF == Obj([email |-> Str(<<"f">>), resume_link |-> PlainLink,
             pdfExtractionStatus |-> Str(<<"Done">>), Rating |-> Str(<<"9", "9">>),
             Summary |-> Str(<<"old">>)])
RowsF == {RowA, RowB, RowF}
PayloadsF ==
    {[present |-> TRUE, csvData |-> Array(q), txtData |-> JobText] : q \in SeqsUpTo(RowsF, MaxRowsD)}

StartProcessingF(j) ==
    \E p \in PayloadsF : Start(j, 1, p)

NextF ==
    \/ Connect(1)
    \/ StartProcessingF(1)
    \/ StepC(1)

SpecCols == Init /\ [][NextF]_vars

\* the events job j has emitted, in order
EventsOf(j) ==
    IF sockOf[j] = 0 THEN <<>>
    ELSE SelectSeq(emitted[sockOf[j]], LAMBDA e : e.job = j)

IsTerminal(e) == e.name \in {"processingComplete", "processingError"}

StatusOf(res) == res["pdfExtractionStatus"].val
RatingOf(res) == res["Rating"]
SummaryOf(res) == res["Summary"].val

IsArray(j) == payload[j].present /\ payload[j].csvData.type = "array"
ItemsOf(j) == payload[j].csvData.items

\* the settled calls of kind c that job j made for row k (0-based)
CallsFor(j, c, k) ==
    {n \in 1..Len(io[j]) : io[j][n].call = c /\ io[j][n].row = k}

\* every finalData that was sent, and every accumulator
Reports ==
    {processedResumes[j] : j \in Jobs} \cup
    UNION {{emitted[s][n].finalData : n \in 1..Len(emitted[s])} : s \in Sockets}

ComputedKeys == {"pdfExtractionStatus", "Rating", "Summary"}

\* res carries every input column of row unchanged
BuiltFrom(res, row) ==
    /\ row.type = "object"
    /\ \A key \in DOMAIN row.fields \ ComputedKeys :
          key \in DOMAIN res /\ res[key] = row.fields[key]

\* ------------------------------------------------------------------- claims
\* C1: whenever processingComplete is emitted for a batch of n records,
\* finalData has exactly n RowResults and the one at position k was built
\* from input record k, whatever failed in any row.
C1_AllRowsInOrder ==
    \A j \in Jobs :
        LET ev == EventsOf(j)
        IN  \A n \in 1..Len(ev) :
              (ev[n].name = "processingComplete" /\ IsArray(j)) =>
                  /\ Len(ev[n].finalData) = Len(ItemsOf(j))
                  /\ \A k \in 1..Len(ItemsOf(j)) :
                        BuiltFrom(ev[n].finalData[k], ItemsOf(j)[k])

\* a completed batch of two different records, one failed and one extracted
C1_Witness ==
    \E j \in Jobs :
        /\ pc[j] = "completed"
        /\ IsArray(j)
        /\ Len(ItemsOf(j)) = 2
        /\ ItemsOf(j)[1] # ItemsOf(j)[2]
        /\ LET last == EventsOf(j)[Len(EventsOf(j))]
           IN  /\ last.name = "processingComplete"
               /\ StatusOf(last.finalData[1]) = <<"Failed">>
               /\ StatusOf(last.finalData[2]) = <<"Success">>

\* responses whose rating is above 10, not a number, or missing
OutOfRangeTexts ==
    { <<"Rating:", " ", "1", "1", "/", "1", "0", "\n", "Summary:", " ", "w", " ">>,
      <<"Rating:", "*", "*", "7", "Rating:", "9", "9">> }
NoRatingTexts ==
    { <<"w", " ", "w">>,
      <<"Rating:", " ", "-", "3", " ", "Summarized Report:", "w">>,
      <<"Summary:", " ", "LLM not configured.">> }

\* row k (1-based) of job j was answered by the backend with one of texts
AnsweredWith(j, k, texts) ==
    \E n \in CallsFor(j, "generateContent", k - 1) :
        io[j][n].result.kind = "text" /\ io[j][n].result.value.val \in texts

\* C2: every Rating in a RowResult is an integer from 0 to 10, and a backend
\* response whose rating is out of range, not a number or missing gives 0.
C2_RatingInRange ==
    /\ \A rep \in Reports : \A k \in 1..Len(rep) :
          RatingOf(rep[k]).type = "number" /\ RatingOf(rep[k]).num \in 0..10
    /\ \A j \in Jobs : \A k \in 1..Len(processedResumes[j]) :
          AnsweredWith(j, k, OutOfRangeTexts \cup NoRatingTexts) =>
              RatingOf(processedResumes[j][k]).num = 0

\* a row answered with "Rating: 11/10" is stored with rating 0, next to a
\* row stored with a positive rating
C2_Witness ==
    \E j \in Jobs : \E k, m \in 1..Len(processedResumes[j]) :
        /\ AnsweredWith(j, k, OutOfRangeTexts)
        /\ RatingOf(processedResumes[j][k]).num = 0
        /\ RatingOf(processedResumes[j][m]).num > 0

Terminals(j) == {n \in 1..Len(EventsOf(j)) : IsTerminal(EventsOf(j)[n])}

\* C3: a job emits at most one terminal event, never processingComplete and
\* processingError both; a job that emits processingError emits no finalData,
\* and nothing of the job follows its terminal event.
C3_OneTerminalAtMost ==
    \A j \in Jobs :
        LET ev == EventsOf(j)
        IN  /\ Cardinality(Terminals(j)) <= 1
            /\ \A n \in Terminals(j) : n = Len(ev)
            /\ (\E n \in 1..Len(ev) : ev[n].name = "processingError") =>
                  \A n \in 1..Len(ev) :
                      ev[n].name # "processingComplete" /\ ev[n].finalData = <<>>

\* a job that failed after it had accumulated a row
C3_Witness ==
    \E j \in Jobs :
        /\ pc[j] = "failed"
        /\ Len(processedResumes[j]) >= 1
        /\ EventsOf(j)[Len(EventsOf(j))].name = "processingError"

Ended(j) == pc[j] \in {"completed", "failed", "rejected"}

\* C4: every startProcessing event, whatever its payload, leads to exactly
\* one terminal event: a handler that has ended has emitted one.
C4_OneTerminalWhenEnded ==
    \A j \in Jobs : Ended(j) => Cardinality(Terminals(j)) = 1

\* text with a character that is not white space
HasVisible(text) ==
    text.type = "string" /\ \E n \in 1..Len(text.val) : ~IsSpace(text.val[n])

LinkOf(row) == Get(row.fields, "resume_link")

\* what happened to row k (1-based) of job j, read from its calls
NoLink(j, k) ==
    LinkOf(ItemsOf(j)[k]).type = "undefined" \/ LinkOf(ItemsOf(j)[k]) = Str(<<>>)
FetchFailure(j, k) ==
    \E n \in CallsFor(j, "fetch", k - 1) : io[j][n].result.kind \in {"notOk", "throws"}
ExtractionFailure(j, k) ==
    \/ \E n \in CallsFor(j, "arrayBuffer", k - 1) : io[j][n].result.kind = "throws"
    \/ \E n \in CallsFor(j, "pdfParse", k - 1) :
          \/ io[j][n].result.kind = "throws"
          \/ io[j][n].result.kind = "data" /\ ~HasVisible(io[j][n].result.value)
TextAcquired(j, k) ==
    \E n \in CallsFor(j, "pdfParse", k - 1) :
        io[j][n].result.kind = "data" /\ HasVisible(io[j][n].result.value)
BackendError(j, k) ==
    \E n \in CallsFor(j, "generateContent", k - 1) : io[j][n].result.kind = "throws"

\* the errors that are not row-scoped: a payload without csvData, a row that
\* is not an object or whose link is not a string, a missing job description
Unexpected(j) ==
    \/ payload[j].csvData.type = "undefined"
    \/ /\ IsArray(j)
       /\ i[j] < Len(ItemsOf(j))
       /\ LET row == ItemsOf(j)[i[j] + 1]
          IN  \/ row.type # "object"
              \/ LinkOf(row).type = "number"
              \/ payload[j].txtData.type = "undefined" /\ TextAcquired(j, i[j] + 1)

\* C5: a missing link, a fetch failure, an extraction failure, a skipped
\* scoring or a backend error is recorded in the row's own result, the job
\* goes on, and none of them makes the job end with processingError.
C5_RowFailuresAbsorbed ==
    \A j \in Jobs :
        /\ pc[j] = "failed" => Unexpected(j)
        /\ \A k \in 1..Len(processedResumes[j]) :
              LET res == processedResumes[j][k]
              IN  /\ (NoLink(j, k) \/ FetchFailure(j, k) \/ ExtractionFailure(j, k)) =>
                        /\ StatusOf(res) = <<"Failed">>
                        /\ RatingOf(res).num = 0
                        /\ SummaryOf(res) = Skipped
                  /\ BackendError(j, k) =>
                        /\ RatingOf(res).num = 0
                        /\ SummaryOf(res) = ApiError
                  /\ i[j] >= k

\* a batch whose first row's fetch failed and whose second row's backend
\* call failed, completed
C5_Witness ==
    \E j \in Jobs :
        /\ pc[j] = "completed"
        /\ Len(processedResumes[j]) = 2
        /\ FetchFailure(j, 1)
        /\ BackendError(j, 2)

\* C6: for a row without a link no fetch and no backend call is made, and
\* its RowResult has extraction status "Failed" and rating 0.
C6_NoLinkNoCalls ==
    \A j \in Jobs : IsArray(j) =>
        \A k \in 1..Len(ItemsOf(j)) :
            (ItemsOf(j)[k].type = "object" /\ NoLink(j, k)) =>
                /\ \A n \in 1..Len(io[j]) : io[j][n].row # k - 1
                /\ pc[j] \in {"fetch", "arrayBuffer", "pdfParse", "generateContent"} =>
                      i[j] # k - 1
                /\ k <= Len(processedResumes[j]) =>
                      /\ StatusOf(processedResumes[j][k]) = <<"Failed">>
                      /\ RatingOf(processedResumes[j][k]).num = 0

\* a processed row with an empty link, after a row that was fetched
C6_Witness ==
    \E j \in Jobs :
        /\ Len(processedResumes[j]) = 2
        /\ LinkOf(ItemsOf(j)[2]) = Str(<<>>)
        /\ CallsFor(j, "fetch", 0) # {}

\* C7: the extraction status is "Success" exactly when the acquisition of
\* the row returned text that is not empty after trimming; otherwise "Failed".
C7_SuccessIffText ==
    \A j \in Jobs : \A k \in 1..Len(processedResumes[j]) :
        LET res == processedResumes[j][k]
        IN  /\ StatusOf(res) \in {<<"Success">>, <<"Failed">>}
            /\ StatusOf(res) = <<"Success">> <=> TextAcquired(j, k)

\* a row whose document held only white space, next to a row with text
C7_Witness ==
    \E j \in Jobs :
        /\ Len(processedResumes[j]) = 2
        /\ \E n \in CallsFor(j, "pdfParse", 0) :
              io[j][n].result.value = Str(<<" ", "\n">>)
        /\ StatusOf(processedResumes[j][1]) = <<"Failed">>
        /\ StatusOf(processedResumes[j][2]) = <<"Success">>

Suspended(j) == pc[j] \in {"fetch", "arrayBuffer", "pdfParse", "generateContent"}

\* C9: rows are processed one after the other in input order: a call for
\* row k is made only when the results of all rows before k, and of no
\* other, have been appended, and the progress notifications of a row come
\* before those of the next row.
C9_RowsSequential ==
    \A j \in Jobs :
        /\ \A n \in 1..Len(io[j]) : io[j][n].appended = io[j][n].row
        /\ \A n, m \in 1..Len(io[j]) : n <= m => io[j][n].row <= io[j][m].row
        /\ Suspended(j) =>
              /\ i[j] = Len(processedResumes[j])
              /\ io[j][Len(io[j])].row = i[j]
        /\ LET ev == EventsOf(j)
           IN  \A n, m \in 1..Len(ev) :
                  (n < m /\ ev[n].row >= 0 /\ ev[m].row >= 0) => ev[n].row <= ev[m].row

\* the second row is being scored after the first row was scored
C9_Witness ==
    \E j \in Jobs :
        /\ pc[j] = "generateContent"
        /\ i[j] = 1
        /\ CallsFor(j, "generateContent", 0) # {}

\* what job j alone computes for row k (1-based) from the answers it got
AloneText(j, k) ==
    IF \E n \in CallsFor(j, "pdfParse", k - 1) : io[j][n].result.kind = "data"
    THEN LET n == CHOOSE n \in CallsFor(j, "pdfParse", k - 1) : TRUE
         IN  ExtractedText(io[j][n].result.value)
    ELSE Null
AloneReport(j, k) ==
    LET n == CHOOSE n \in CallsFor(j, "generateContent", k - 1) : TRUE
    IN  IF io[j][n].result.kind = "text"
        THEN ParseResponse(io[j][n].result.value.val)
        ELSE LLMFailed
AloneRow(j, k) ==
    IF Truthy(AloneText(j, k))
    THEN ProcessedRow(ItemsOf(j)[k], AloneText(j, k),
                      AloneReport(j, k).rating, AloneReport(j, k).summary)
    ELSE ProcessedRow(ItemsOf(j)[k], Null, 0, Skipped)
AloneExtractions(j, n) == Cardinality({k \in 1..n : Truthy(AloneText(j, k))})
AloneLLMCalls(j, n) ==
    Cardinality({k \in 1..n : Truthy(AloneText(j, k)) /\ CountsAsLLMCall(AloneReport(j, k))})

\* C10: jobs are independent under every interleaving at their awaits: the
\* accumulator and the counters of a job, and the finalData and the counts
\* it sends, are what the job computes alone from the answers it received.
C10_JobsIndependent ==
    \A j \in Jobs :
        /\ pc[j] \notin {"idle", "rejected"} =>
              LET n == i[j]
              IN  /\ processedResumes[j] = [k \in 1..n |-> AloneRow(j, k)]
                  /\ successfulExtractions[j] =
                        AloneExtractions(j, n) +
                            (IF IsArray(j) /\ n < Len(ItemsOf(j)) /\ Truthy(AloneText(j, n + 1))
                             THEN 1 ELSE 0)
                  /\ successfulLLMCalls[j] = AloneLLMCalls(j, n)
        /\ pc[j] = "completed" =>
              LET last == EventsOf(j)[Len(EventsOf(j))]
                  n == Len(ItemsOf(j))
              IN  /\ last.finalData = [k \in 1..n |-> AloneRow(j, k)]
                  /\ last.extractions = AloneExtractions(j, n)
                  /\ last.llmCalls = AloneLLMCalls(j, n)

\* two jobs of different sessions completed, each after a backend call
C10_Witness ==
    \E j, h \in Jobs :
        /\ sockOf[j] # sockOf[h]
        /\ pc[j] = "completed" /\ pc[h] = "completed"
        /\ Len(processedResumes[j]) >= 1 /\ Len(processedResumes[h]) >= 1
        /\ CallsFor(j, "generateContent", 0) # {}
        /\ CallsFor(h, "generateContent", 0) # {}

\* the accumulator of job j holds one result per input record, in order
AllRowsDone(j) ==
    /\ Len(processedResumes[j]) = Len(ItemsOf(j))
    /\ \A k \in 1..Len(ItemsOf(j)) : BuiltFrom(processedResumes[j][k], ItemsOf(j)[k])

\* C11: a disconnect while a job is in flight does not interrupt it: the
\* disconnect changes nothing of the job, the job never fails because of
\* it, what it emits afterwards reaches nobody, and a job that completes
\* after the disconnect has processed every row in order.
C11_DisconnectDoesNotInterrupt ==
    /\ [](\A j \in Jobs :
            /\ pc[j] = "failed" => Unexpected(j)
            /\ pc[j] = "completed" => AllRowsDone(j))
    /\ [][/\ \A s \in Sockets : s \in closed => delivered'[s] = delivered[s]
          /\ closed' # closed =>
                UNCHANGED <<pc, i, processedResumes, successfulExtractions,
                            successfulLLMCalls, emitted, io>>]_vars

\* a job of two rows completed after its session had left during the first
C11_Witness ==
    \E j \in Jobs :
        /\ pc[j] = "completed"
        /\ sockOf[j] \in closed
        /\ Len(processedResumes[j]) = 2
        /\ delivered[sockOf[j]] # <<>>
        /\ \A n \in 1..Len(delivered[sockOf[j]]) : delivered[sockOf[j]][n].row <= 0
        /\ Len(emitted[sockOf[j]]) > Len(delivered[sockOf[j]])
        /\ CallsFor(j, "generateContent", 1) # {}

BackendCalls(j) == {n \in 1..Len(io[j]) : io[j][n].call = "generateContent"}
SuccessRows(j) ==
    {k \in 1..Len(processedResumes[j]) : StatusOf(processedResumes[j][k]) = <<"Success">>}

\* C12: the backend is called for a row only when the row's text was
\* extracted; a row without text has rating 0 and the summary "LLM analysis
\* skipped due to no extracted PDF text." and no backend call, so a job never
\* makes more backend calls than it has rows with status "Success".
C12_ScoredOnlyWithText ==
    \A j \in Jobs :
        /\ \A n \in BackendCalls(j) : TextAcquired(j, io[j][n].row + 1)
        /\ \A k \in 1..Len(processedResumes[j]) :
              ~TextAcquired(j, k) =>
                  /\ RatingOf(processedResumes[j][k]).num = 0
                  /\ SummaryOf(processedResumes[j][k]) = Skipped
                  /\ CallsFor(j, "generateContent", k - 1) = {}
        /\ Cardinality(BackendCalls(j)) <=
              Cardinality(SuccessRows(j)) + (IF pc[j] = "generateContent" THEN 1 ELSE 0)

\* a completed batch with a row whose fetch failed and a row that was scored
C12_Witness ==
    \E j \in Jobs :
        /\ pc[j] = "completed"
        /\ Len(processedResumes[j]) = 2
        /\ FetchFailure(j, 2)
        /\ SummaryOf(processedResumes[j][2]) = Skipped
        /\ Cardinality(BackendCalls(j)) = 1
        /\ SuccessRows(j) = {1}

Completions(j) ==
    {n \in 1..Len(EventsOf(j)) : EventsOf(j)[n].name = "processingComplete"}

\* the rows of a report whose backend call returned a response
Scored(j, rep) == {k \in 1..Len(rep) : AnsweredWith(j, k, LLMTexts)}

\* the rows of a report for which the backend was called at all
Attempted(j, rep) == {k \in 1..Len(rep) : CallsFor(j, "generateContent", k - 1) # {}}

\* C13: in the closing message of processingComplete the extraction count is
\* the number of RowResults with status "Success" and the scoring count is
\* the number of rows whose scoring succeeded; a row whose backend call failed
\* with an API error, or whose scoring was skipped, is not counted.
C13_ClosingCounts ==
    \A j \in Jobs : \A n \in Completions(j) :
        LET e == EventsOf(j)[n]
        IN  /\ e.extractions =
                  Cardinality({k \in 1..Len(e.finalData) :
                                  StatusOf(e.finalData[k]) = <<"Success">>})
            /\ e.llmCalls = Cardinality(Scored(j, e.finalData))

\* what lines 268-273 count: every row handed to the backend, failed calls
\* included, unless its result is rating 0 with the summary "LLM not configured."
C13_CountsAsCoded ==
    \A j \in Jobs : \A n \in Completions(j) :
        LET e == EventsOf(j)[n]
        IN  e.llmCalls =
                Cardinality({k \in Attempted(j, e.finalData) :
                                \/ RatingOf(e.finalData[k]).num > 0
                                \/ SummaryOf(e.finalData[k]) # NotConfigured})

\* a completed batch whose only row met an API error and is counted as scored
C13_ApiErrorCounted ==
    \E j \in Jobs : \E n \in Completions(j) :
        /\ EventsOf(j)[n].llmCalls = 1
        /\ Len(EventsOf(j)[n].finalData) = 1
        /\ BackendError(j, 1)

\* the reports of the updates job j emitted about row k (1-based)
NotesOf(j, k) ==
    {EventsOf(j)[n].report : n \in {m \in 1..Len(EventsOf(j)) : EventsOf(j)[m].row = k - 1}}

\* the processed rows of job j that have no document link
NoLinkRows(j) ==
    {k \in 1..Len(processedResumes[j]) : ItemsOf(j)[k].type = "object" /\ NoLink(j, k)}

\* C14 as stated: a row with no document link skips acquisition, emits a
\* "no link" note and gets the Scorer's "missing content" result (rating 0,
\* summary "Missing resume content for LLM analysis.").
C14_NoLinkMissingContent ==
    \A j \in Jobs : \A k \in NoLinkRows(j) :
        /\ "No PDF URL" \in NotesOf(j, k)
        /\ "Extracting PDF" \notin NotesOf(j, k)
        /\ RatingOf(processedResumes[j][k]).num = 0
        /\ SummaryOf(processedResumes[j][k]) = MissingContent

\* C14 (amended): a row with no document link skips acquisition, emits a
\* "no link" note and skips scoring as well: no external call is made for
\* it, its status is "Failed", its rating is 0 and its summary is "LLM
\* analysis skipped due to no extracted PDF text.".
C14_NoLinkSkipsScoring ==
    \A j \in Jobs : \A k \in NoLinkRows(j) :
        /\ NotesOf(j, k) = {"Processing resume", "No PDF URL"}
        /\ \A n \in 1..Len(io[j]) : io[j][n].row # k - 1
        /\ StatusOf(processedResumes[j][k]) = <<"Failed">>
        /\ RatingOf(processedResumes[j][k]).num = 0
        /\ SummaryOf(processedResumes[j][k]) = Skipped

\* a completed batch whose first row has no resume_link column
C14_Witness ==
    \E j \in Jobs :
        /\ pc[j] = "completed"
        /\ 1 \in NoLinkRows(j)
        /\ LinkOf(ItemsOf(j)[1]).type = "undefined"
        /\ SummaryOf(processedResumes[j][1]) = Skipped

\* a row that is not a record of strings: null, or a link that is a number
Malformed(row) == row.type # "object" \/ LinkOf(row).type = "number"

\* C15: a malformed batch row (a truthy non-string link, a null row) becomes
\* a row-level failure with status "Failed" and rating 0 and does not crash
\* the job: the rows after it are processed and the job completes.
C15_MalformedRowDegrades ==
    \A j \in Jobs : IsArray(j) =>
        /\ \A k \in 1..Len(processedResumes[j]) :
              Malformed(ItemsOf(j)[k]) =>
                  /\ StatusOf(processedResumes[j][k]) = <<"Failed">>
                  /\ RatingOf(processedResumes[j][k]).num = 0
        /\ (i[j] < Len(ItemsOf(j)) /\ Malformed(ItemsOf(j)[i[j] + 1])) => pc[j] # "failed"

\* a job stopped by processingError at a malformed first row, the second row
\* never started
C15_MalformedRowCrashes ==
    \E j \in Jobs :
        /\ IsArray(j)
        /\ Len(ItemsOf(j)) = 2
        /\ Malformed(ItemsOf(j)[1])
        /\ pc[j] = "failed"
        /\ processedResumes[j] = <<>>
        /\ EventsOf(j)[Len(EventsOf(j))].name = "processingError"
        /\ NotesOf(j, 2) = {}

\* C16: the events of a job follow Started -> Processing(0..n-1) ->
\* Aggregating -> Completed: the first event is a processingUpdate with
\* status "analysing all resume", the per-row updates carry no status and
\* come in row order, a processingUpdate with status "converting to csv"
\* comes after the last row's updates and immediately before
\* processingComplete, and no other event carries a status.
C16_StatusAtPhaseChanges ==
    \A j \in Jobs :
        LET E == EventsOf(j)
        IN  /\ pc[j] \notin {"idle", "rejected"} => E # <<>>
            /\ E # <<>> =>
                  E[1].name = "processingUpdate" /\ E[1].status = "analysing all resume"
            /\ \A n \in 1..Len(E) :
                  /\ E[n].row >= 0 =>
                        /\ E[n].name = "processingUpdate"
                        /\ E[n].status = NoStatus
                        /\ \A m \in 1..n : E[m].row <= E[n].row
                  /\ E[n].name = "processingComplete" =>
                        /\ n > 1
                        /\ E[n - 1].name = "processingUpdate"
                        /\ E[n - 1].status = "converting to csv"
                        /\ \A m \in 1..Len(E) : E[m].row >= 0 => m < n - 1
                  /\ E[n].status # NoStatus =>
                        \/ n = 1
                        \/ /\ E[n].status = "converting to csv"
                           /\ n < Len(E)
                           /\ E[n + 1].name = "processingComplete"
                  /\ n > 1 => E[n].status # "analysing all resume"

\* a completed two-row batch: first the start update, then updates about
\* both rows, then the "converting to csv" update and processingComplete
C16_Witness ==
    \E j \in Jobs :
        LET E == EventsOf(j)
        IN  /\ pc[j] = "completed"
            /\ Len(processedResumes[j]) = 2
            /\ Len(E) >= 6
            /\ E[1].status = "analysing all resume"
            /\ E[Len(E) - 1].status = "converting to csv"
            /\ E[Len(E)].name = "processingComplete"
            /\ {E[n].row : n \in 2..(Len(E) - 2)} = {0, 1}

\* C17: on one session one job runs to completion at a time: when a second
\* startProcessing arrives while the first job is in flight, the events of
\* the two jobs are not interleaved (every event between a job's start
\* update and its terminal event belongs to that job).
C17_NotInterleaved ==
    \A s \in Sockets :
        LET E == emitted[s]
        IN  \A a \in 1..Len(E) : \A c \in a..Len(E) :
                (E[a].job = E[c].job /\ ~IsTerminal(E[a])) =>
                    \A b \in a..c : E[b].job = E[a].job

\* both jobs of one session completed, the start update of the second
\* between the events of the first
C17_Interleaved ==
    /\ pc[1] = "completed" /\ pc[2] = "completed"
    /\ sockOf[1] = 1 /\ sockOf[2] = 1
    /\ \E a \in 1..Len(emitted[1]) :
          /\ emitted[1][a].job = 2
          /\ emitted[1][a].status = "analysing all resume"
          /\ \E b \in 1..(a - 1) : emitted[1][b].job = 1
          /\ \E c \in (a + 1)..Len(emitted[1]) : emitted[1][c].job = 1

\* the backend responses by what they contain, labelled by hand
NoRatingLabelTexts ==
    { <<"w", " ", "w">>,
      <<"Summary:", " ", "LLM not configured.">> }
InvalidRatingTexts ==
    { <<"Rating:", " ", "1", "1", "/", "1", "0", "\n", "Summary:", " ", "w", " ">>,
      <<"Rating:", " ", "-", "3", " ", "Summarized Report:", "w">>,
      <<"Rating:", "*", "*", "7", "Rating:", "9", "9">> }
NoSummaryLabelTexts ==
    { <<"w", " ", "w">>,
      <<"rating:", "*", "1", "0", "*">>,
      <<"Rating:", "*", "*", "7", "Rating:", "9", "9">> }

\* the text after the summary label of a response that has one
LabelledSummary(t) ==
    CASE t = <<"Rating:", "8", "/", "1", "0", " ", "Summary:", "w", " ", "w">> -> <<"w", " ", "w">>
      [] t = <<"Summary:", " ", "LLM not configured.">> -> <<"LLM not configured.">>
      [] OTHER -> <<"w">>

\* the rating a response with a valid rating states
StatedRating(t) ==
    CASE t = <<"Rating:", "8", "/", "1", "0", " ", "Summary:", "w", " ", "w">> -> 8
      [] t = <<"rating:", "*", "1", "0", "*">> -> 10
      [] OTHER -> 0

\* the response texts the backend returned for row k (1-based) of job j
ResponsesFor(j, k) ==
    {io[j][n].result.value.val :
        n \in {m \in CallsFor(j, "generateContent", k - 1) : io[j][m].result.kind = "text"}}

\* C18: compareWithLLM takes rating and summary from the response
\* independently: without a "Rating:" label the rating is 0; the summary is
\* "Could not parse summary from LLM response." only when the response has no
\* "Summary:"/"Summarized Report:" label; the text after such a label is the
\* summary even when the rating is missing or invalid, and a valid rating is
\* returned even when the summary label is absent.
C18_RatingAndSummaryIndependent ==
    \A j \in Jobs : \A k \in 1..Len(processedResumes[j]) : \A t \in ResponsesFor(j, k) :
        LET res == processedResumes[j][k]
        IN  /\ t \in NoRatingLabelTexts \cup InvalidRatingTexts => RatingOf(res).num = 0
            /\ t \notin NoRatingLabelTexts \cup InvalidRatingTexts =>
                  RatingOf(res).num = StatedRating(t)
            /\ SummaryOf(res) = NoSummary <=> t \in NoSummaryLabelTexts
            /\ t \notin NoSummaryLabelTexts => SummaryOf(res) = LabelledSummary(t)

\* a batch with a row whose response had a summary and no rating label, and
\* a row whose response had a valid rating and no summary label
C18_Witness ==
    \E j \in Jobs :
        /\ Len(processedResumes[j]) = 2
        /\ ResponsesFor(j, 1) = {<<"Summary:", " ", "LLM not configured.">>}
        /\ SummaryOf(processedResumes[j][1]) = <<"LLM not configured.">>
        /\ RatingOf(processedResumes[j][1]).num = 0
        /\ ResponsesFor(j, 2) = {<<"rating:", "*", "1", "0", "*">>}
        /\ RatingOf(processedResumes[j][2]).num = 10
        /\ SummaryOf(processedResumes[j][2]) = NoSummary

\* C19: a RowResult has every field of its input record unchanged, except
\* that pdfExtractionStatus, Rating and Summary always hold the computed
\* values, whatever the input record has under these names; the input
\* records and the job description are never changed by the processing.
C19_InputKeptComputedOverride ==
    /\ [](\A j \in Jobs : \A k \in 1..Len(processedResumes[j]) :
            LET res == processedResumes[j][k]
                row == ItemsOf(j)[k]
            IN  /\ DOMAIN res = DOMAIN row.fields \cup ComputedKeys
                /\ BuiltFrom(res, row)
                /\ res["pdfExtractionStatus"] =
                      IF TextAcquired(j, k) THEN Str(<<"Success">>) ELSE Str(<<"Failed">>)
                /\ res["Rating"] =
                      IF TextAcquired(j, k) /\ ~BackendError(j, k) THEN Num(8) ELSE Num(0)
                /\ res["Summary"] =
                      IF ~TextAcquired(j, k) THEN Str(Skipped)
                      ELSE IF BackendError(j, k) THEN Str(ApiError)
                      ELSE Str(<<"w", " ", "w">>))
    /\ [][\A j \in Jobs : pc[j] # "idle" => payload'[j] = payload[j]]_vars

\* a completed batch whose first row came with its own Rating, Summary and
\* pdfExtractionStatus columns and was scored 8
C19_Witness ==
    \E j \in Jobs :
        /\ pc[j] = "completed"
        /\ Len(processedResumes[j]) = 2
        /\ ItemsOf(j)[1] = RowF
        /\ processedResumes[j][1]["Rating"] = Num(8)
        /\ processedResumes[j][1]["email"] = Str(<<"f">>)
        /\ payload[j].csvData.items[1].fields["Rating"] = Str(<<"9", "9">>)

\* the rows of job j whose body has been entered: those fully processed and
\* the one in progress when the handler is suspended or was stopped in a row
RowsStarted(j) ==
    IF Suspended(j) \/ pc[j] = "failed" THEN i[j] + 1 ELSE i[j]

\* the row in progress has been counted as an extraction and is not appended yet
CountedInProgress(j) ==
    \/ pc[j] = "generateContent"
    \/ pc[j] = "failed" /\ TextAcquired(j, i[j] + 1)

\* C20: at every point of a job successfulLLMCalls <= successfulExtractions
\* <= rows started <= n, processedResumes holds one result per row fully
\* processed, and at each loop boundary successfulExtractions is the number
\* of accumulated results whose pdfExtractionStatus is "Success".
C20_CounterInvariants ==
    \A j \in Jobs : IsArray(j) =>
        /\ successfulLLMCalls[j] <= successfulExtractions[j]
        /\ successfulExtractions[j] <= RowsStarted(j)
        /\ RowsStarted(j) <= Len(ItemsOf(j))
        /\ Len(processedResumes[j]) = i[j]
        /\ successfulExtractions[j] =
              Cardinality(SuccessRows(j)) + (IF CountedInProgress(j) THEN 1 ELSE 0)

\* a job suspended on the backend call of its second row: two extractions
\* counted, one scoring counted, one result accumulated
C20_Witness ==
    \E j \in Jobs :
        /\ Len(ItemsOf(j)) = 2
        /\ i[j] = 1
        /\ pc[j] = "generateContent"
        /\ successfulExtractions[j] = 2
        /\ successfulLLMCalls[j] = 1
        /\ Len(processedResumes[j]) = 1
====
